---- MODULE Spec2Model ----
(***************************************************************************)
(* Model of src/adapter/openai-to-cli.ts: the conversion of an OpenAI chat *)
(* request into the input of the Claude CLI (extractModel, extractText,    *)
(* messagesToPrompt, openaiToCli).                                         *)
(*                                                                         *)
(* JavaScript values are tagged records [t, v]:                            *)
(*   string     v = the sequence of its characters                         *)
(*   number     v = the characters of its decimal representation           *)
(*   null, undefined                 v = <<>>                              *)
(*   array      v = the sequence of its elements                           *)
(*   object     v = <<type, text>>, the two properties the code reads      *)
(*   function   v = the characters of its name                             *)
(* A call either returns a value or throws; extractText and the functions  *)
(* that call it yield a completion record with a threw flag.               *)
(***************************************************************************)
EXTENDS Integers, Sequences, FiniteSets

VARIABLES op, request, request2, content, result, result2

vars == <<op, request, request2, content, result, result2>>

(***************************************************************************)
(* Bounds of the explored inputs.                                          *)
(***************************************************************************)
MaxPrefixes == 2

MaxBlocks == 3

MaxMsgs == 3

MaxPairLen == 2

MaxReqMsgs == 1

(***************************************************************************)
(* JavaScript values.                                                      *)
(***************************************************************************)
Str(s) == [t |-> "string", v |-> s]

Num(digits) == [t |-> "number", v |-> digits]

Null == [t |-> "null", v |-> <<>>]

Undefined == [t |-> "undefined", v |-> <<>>]

Arr(elems) == [t |-> "array", v |-> elems]

Obj(type, text) == [t |-> "object", v |-> <<type, text>>]

Fn(name) == [t |-> "function", v |-> name]

\* ToBoolean, as applied by `if (...)` and `&&`.
Truthy(x) ==
    CASE x.t = "string" -> x.v # <<>>
      [] x.t = "number" -> x.v # <<"0">>
      [] x.t \in {"null", "undefined"} -> FALSE
      [] OTHER -> TRUE

\* String(x) for the values that reach it.
StringOf(x) ==
    CASE x.t = "string" -> x.v
      [] x.t = "number" -> x.v
      [] x.t = "null" -> <<"n", "u", "l", "l">>
      [] x.t = "undefined" -> <<"u", "n", "d", "e", "f", "i", "n", "e", "d">>
      [] OTHER -> <<"[", "o", "b", "j", "e", "c", "t", " ", "O", "b", "j", "e", "c", "t", "]">>

\* Array.prototype.join on an array of strings.
RECURSIVE join(_, _)
join(parts, sep) ==
    IF parts = <<>> THEN <<>>
    ELSE IF Len(parts) = 1 THEN Head(parts)
    ELSE Head(parts) \o sep \o join(Tail(parts), sep)

\* The characters String.prototype.trim removes, among those the inputs hold.
IsWhitespace(c) == c \in {" ", "\n", "\t", "\r"}

RECURSIVE trimStart(_)
trimStart(s) ==
    IF s # <<>> /\ IsWhitespace(Head(s)) THEN trimStart(Tail(s)) ELSE s

RECURSIVE trimEnd(_)
trimEnd(s) ==
    IF s # <<>> /\ IsWhitespace(s[Len(s)]) THEN trimEnd(SubSeq(s, 1, Len(s) - 1)) ELSE s

trim(s) == trimEnd(trimStart(s))

(***************************************************************************)
(* extractModel                                                            *)
(***************************************************************************)
opus == <<"o", "p", "u", "s">>

sonnet == <<"s", "o", "n", "n", "e", "t">>

haiku == <<"h", "a", "i", "k", "u">>

ClaudeModel == {Str(opus), Str(sonnet), Str(haiku)}

claude_opus_4 == <<"c", "l", "a", "u", "d", "e", "-", "o", "p", "u", "s", "-", "4">>

claude_sonnet_4 == <<"c", "l", "a", "u", "d", "e", "-", "s", "o", "n", "n", "e", "t", "-", "4">>

claude_haiku_4 == <<"c", "l", "a", "u", "d", "e", "-", "h", "a", "i", "k", "u", "-", "4">>

ProviderPrefix == <<"c", "l", "a", "u", "d", "e", "-", "c", "o", "d", "e", "-", "c", "l", "i", "/">>

\* The own properties of the MODEL_MAP object literal, in source order.
MODEL_MAP ==
    << <<claude_opus_4, Str(opus)>>,
       <<claude_sonnet_4, Str(sonnet)>>,
       <<claude_haiku_4, Str(haiku)>>,
       <<ProviderPrefix \o claude_opus_4, Str(opus)>>,
       <<ProviderPrefix \o claude_sonnet_4, Str(sonnet)>>,
       <<ProviderPrefix \o claude_haiku_4, Str(haiku)>>,
       <<opus, Str(opus)>>,
       <<sonnet, Str(sonnet)>>,
       <<haiku, Str(haiku)>> >>

OwnKeys(obj) == {obj[i][1] : i \in 1..Len(obj)}

OwnValue(obj, key) == obj[CHOOSE i \in 1..Len(obj) : obj[i][1] = key][2]

constructor == <<"c", "o", "n", "s", "t", "r", "u", "c", "t", "o", "r">>

toStringName == <<"t", "o", "S", "t", "r", "i", "n", "g">>

valueOfName == <<"v", "a", "l", "u", "e", "O", "f">>

hasOwnPropertyName == <<"h", "a", "s", "O", "w", "n", "P", "r", "o", "p", "e", "r", "t", "y">>

protoName == <<"_", "_", "p", "r", "o", "t", "o", "_", "_">>

\* Properties every object literal inherits from Object.prototype.
ObjectPrototypeKeys ==
    {constructor, toStringName, valueOfName, hasOwnPropertyName, protoName,
     <<"i", "s", "P", "r", "o", "t", "o", "t", "y", "p", "e", "O", "f">>,
     <<"p", "r", "o", "p", "e", "r", "t", "y", "I", "s", "E", "n", "u", "m", "e", "r", "a", "b", "l", "e">>,
     <<"t", "o", "L", "o", "c", "a", "l", "e", "S", "t", "r", "i", "n", "g">>,
     <<"_", "_", "d", "e", "f", "i", "n", "e", "G", "e", "t", "t", "e", "r", "_", "_">>,
     <<"_", "_", "d", "e", "f", "i", "n", "e", "S", "e", "t", "t", "e", "r", "_", "_">>,
     <<"_", "_", "l", "o", "o", "k", "u", "p", "G", "e", "t", "t", "e", "r", "_", "_">>,
     <<"_", "_", "l", "o", "o", "k", "u", "p", "S", "e", "t", "t", "e", "r", "_", "_">>}

\* obj[key] on an object literal: the own property, else the inherited one
\* (a function, or Object.prototype itself for __proto__), else undefined.
Get(obj, key) ==
    IF key \in OwnKeys(obj) THEN OwnValue(obj, key)
    ELSE IF key = protoName THEN Obj(Undefined, Undefined)
    ELSE IF key \in ObjectPrototypeKeys THEN Fn(key)
    ELSE Undefined

StartsWith(s, p) == Len(s) >= Len(p) /\ SubSeq(s, 1, Len(p)) = p

\* model.replace(/^claude-code-cli\//, "")
stripPrefix(model) ==
    IF StartsWith(model, ProviderPrefix)
    THEN SubSeq(model, Len(ProviderPrefix) + 1, Len(model))
    ELSE model

extractModel(model) ==
    IF Truthy(Get(MODEL_MAP, model)) THEN Get(MODEL_MAP, model)
    ELSE LET stripped == stripPrefix(model)
         IN IF Truthy(Get(MODEL_MAP, stripped)) THEN Get(MODEL_MAP, stripped)
            ELSE Str(opus)

(***************************************************************************)
(* extractText                                                             *)
(***************************************************************************)
Return(x) == [threw |-> FALSE, value |-> x]

Throw == [threw |-> TRUE, value |-> Undefined]

textType == <<"t", "e", "x", "t">>

\* block.type and block.text; reading a property of a primitive other than
\* null and undefined yields undefined.
TypeOf(block) == IF block.t = "object" THEN block.v[1] ELSE Undefined

TextOf(block) == IF block.t = "object" THEN block.v[2] ELSE Undefined

\* A mutated filter: keeps every block that carries text, whatever its type.
keepBlock_anyType(block) == Truthy(TextOf(block))

\* block => block.type === "text" && block.text
keepBlock(block) == TypeOf(block) = Str(textType) /\ Truthy(TextOf(block))

\* content.filter(...): reading .type of a null or undefined element throws.
RECURSIVE filterBlocks(_)
filterBlocks(elems) ==
    IF elems = <<>> THEN Return(<<>>)
    ELSE IF Head(elems).t \in {"null", "undefined"} THEN Throw
    ELSE LET rest == filterBlocks(Tail(elems))
         IN IF rest.threw THEN Throw
            ELSE IF keepBlock(Head(elems)) THEN Return(<<Head(elems)>> \o rest.value)
            ELSE rest

\* .map(block => block.text) and the element conversion of .join
mapText(blocks) == [i \in 1..Len(blocks) |-> StringOf(TextOf(blocks[i]))]

extractText(c) ==
    IF c.t = "string" THEN Return(c)
    ELSE IF c.t = "array"
    THEN LET kept == filterBlocks(c.v)
         IN IF kept.threw THEN Throw
            ELSE Return(Str(join(mapText(kept.value), <<"\n">>)))
    ELSE Return(Str(StringOf(c)))

(***************************************************************************)
(* messagesToPrompt                                                        *)
(***************************************************************************)
system == <<"s", "y", "s", "t", "e", "m">>

user == <<"u", "s", "e", "r">>

assistant == <<"a", "s", "s", "i", "s", "t", "a", "n", "t">>

previousResponseOpen ==
    <<"<", "p", "r", "e", "v", "i", "o", "u", "s", "_", "r", "e", "s", "p", "o", "n", "s", "e", ">", "\n">>

previousResponseClose ==
    <<"\n", "<", "/", "p", "r", "e", "v", "i", "o", "u", "s", "_", "r", "e", "s", "p", "o", "n", "s", "e", ">", "\n">>

\* `<previous_response>\n${text}\n</previous_response>\n`
wrapAssistant(text) == previousResponseOpen \o text \o previousResponseClose

\* A mutated switch: system text is embedded in the prompt.
switchRole_systemInline(parts, role, text) ==
    CASE role = Str(system) -> [parts EXCEPT !.promptParts = Append(@, text)]
      [] role = Str(user) -> [parts EXCEPT !.promptParts = Append(@, text)]
      [] role = Str(assistant) -> [parts EXCEPT !.promptParts = Append(@, wrapAssistant(text))]
      [] OTHER -> parts

\* switch (msg.role): the push of one message's text.
switchRole(parts, role, text) ==
    CASE role = Str(system) -> [parts EXCEPT !.systemParts = Append(@, text)]
      [] role = Str(user) -> [parts EXCEPT !.promptParts = Append(@, text)]
      [] role = Str(assistant) -> [parts EXCEPT !.promptParts = Append(@, wrapAssistant(text))]
      [] OTHER -> parts

\* for (const msg of messages): extractText runs before the switch, so a
\* throw in it ends the loop whatever the role.
RECURSIVE forMessages(_, _)
forMessages(messages, parts) ==
    IF messages = <<>> THEN Return(parts)
    ELSE LET msg == Head(messages)
             text == extractText(msg.content)
         IN IF text.threw THEN Throw
            ELSE forMessages(Tail(messages), switchRole(parts, msg.role, text.value.v))

\* A mutated prompt: joined but not trimmed.
promptOf_noTrim(promptParts) == Str(join(promptParts, <<"\n">>))

\* promptParts.join("\n").trim()
promptOf(promptParts) == Str(trim(join(promptParts, <<"\n">>)))

\* A mutated system prompt: joined by a single newline.
systemPromptOf_singleNewline(systemParts) ==
    IF Len(systemParts) > 0 THEN Str(join(systemParts, <<"\n">>)) ELSE Null

\* systemParts.length > 0 ? systemParts.join("\n\n") : null
systemPromptOf(systemParts) ==
    IF Len(systemParts) > 0 THEN Str(join(systemParts, <<"\n", "\n">>)) ELSE Null

Thrown == [threw |-> TRUE]

messagesToPrompt(messages) ==
    LET done == forMessages(messages, [systemParts |-> <<>>, promptParts |-> <<>>])
    IN IF done.threw THEN Thrown
       ELSE [threw |-> FALSE,
             prompt |-> promptOf(done.value.promptParts),
             systemPrompt |-> systemPromptOf(done.value.systemParts)]

(***************************************************************************)
(* openaiToCli                                                             *)
(***************************************************************************)
\* A mutated adapter: the session is taken from the model field.
openaiToCli_sessionFromModel(req) ==
    LET flat == messagesToPrompt(req.messages)
    IN IF flat.threw THEN Thrown
       ELSE [threw |-> FALSE,
             prompt |-> flat.prompt,
             systemPrompt |-> flat.systemPrompt,
             model |-> extractModel(req.model.v),
             sessionId |-> req.model]

openaiToCli(req) ==
    LET flat == messagesToPrompt(req.messages)
    IN IF flat.threw THEN Thrown
       ELSE [threw |-> FALSE,
             prompt |-> flat.prompt,
             systemPrompt |-> flat.systemPrompt,
             model |-> extractModel(req.model.v),
             sessionId |-> req.user]

(***************************************************************************)
(* Inputs                                                                  *)
(***************************************************************************)
SeqsUpTo(S, n) == UNION {[1..k -> S] : k \in 0..n}

RECURSIVE Repeat(_, _)
Repeat(s, k) == IF k = 0 THEN <<>> ELSE s \o Repeat(s, k - 1)

ModelBases ==
    {opus, sonnet, haiku, claude_opus_4, claude_sonnet_4, claude_haiku_4,
     <<>>, <<"g", "p", "t", "-", "4">>, <<"O", "p", "u", "s">>,
     <<"x">> \o ProviderPrefix \o sonnet,
     constructor, toStringName, protoName}

ModelStrings == {Repeat(ProviderPrefix, k) \o b : k \in 0..MaxPrefixes, b \in ModelBases}

imageType == <<"i", "m", "a", "g", "e">>

ignored == <<"i", "g", "n", "o", "r", "e", "d">>

Blocks ==
    {Obj(Str(ty), tx) : ty \in {textType, imageType},
                        tx \in {Undefined, Str(<<>>), Str(<<"a">>), Str(<<"b">>), Str(ignored)}}

ExampleBlocks ==
    <<Obj(Str(textType), Str(<<"a">>)), Obj(Str(imageType), Str(ignored)), Obj(Str(textType), Str(<<"b">>))>>

Contents ==
    {Str(<<>>), Str(<<"A">>), Str(<<" ", "B", "\n">>),
     Null, Undefined, Num(<<"7">>), Obj(Undefined, Undefined)}
    \cup {Arr(e) : e \in SeqsUpTo(Blocks \cup {Null}, MaxBlocks)}

tool == <<"t", "o", "o", "l">>

Roles == {system, user, assistant, tool}

Msg(role, c) == [role |-> Str(role), content |-> c]

MsgContents == {Str(<<>>), Str(<<"A">>), Arr(ExampleBlocks), Arr(<<Null>>)}

Messages == {Msg(r, c) : r \in Roles, c \in MsgContents}

ExampleConversation ==
    <<Msg(user, Str(<<"h", "i">>)), Msg(assistant, Str(<<"h", "e", "l", "l", "o">>)),
      Msg(user, Str(<<"m", "o", "r", "e">>))>>

ExampleSystems == <<Msg(system, Str(<<"A">>)), Msg(system, Str(<<"B">>))>>

MessageSeqs == SeqsUpTo(Messages, MaxMsgs) \cup {ExampleConversation, ExampleSystems}

PairMessages == {Msg(r, Str(s)) : r \in {system, user, assistant}, s \in {<<"A">>, <<"B">>}}

PairSeqs == SeqsUpTo(PairMessages, MaxPairLen)

AdapterModels == {opus, ProviderPrefix \o sonnet, <<"g", "p", "t", "-", "4">>, constructor}

AdapterMessages ==
    {Msg(system, Str(<<"A">>)), Msg(user, Str(<<"B">>)), Msg(assistant, Str(<<"A">>)),
     Msg(user, Arr(<<Null>>))}

Users == {Undefined, Str(<<"u", "1">>), Str(<<"u", "2">>)}

Request(m, msgs, u) == [model |-> Str(m), messages |-> msgs, user |-> u]

Requests ==
    {Request(m, msgs, u) : m \in AdapterModels,
                           msgs \in SeqsUpTo(AdapterMessages, MaxReqMsgs),
                           u \in Users}

\* The requests that differ from req in exactly one field.
Variants(req) ==
    ({[req EXCEPT !.user = u] : u \in Users}
     \cup {[req EXCEPT !.model = Str(m)] : m \in AdapterModels}
     \cup {[req EXCEPT !.messages = msgs] : msgs \in SeqsUpTo(AdapterMessages, MaxReqMsgs)})
    \ {req}

(***************************************************************************)
(* The calls.  The module holds no state between calls: each call starts   *)
(* from the idle state and its result is handed back before the next one.  *)
(***************************************************************************)
NoRequest == Request(<<>>, <<>>, Undefined)

NoResult == [threw |-> FALSE]

Init ==
    /\ op = "idle"
    /\ request = NoRequest
    /\ request2 = NoRequest
    /\ content = Undefined
    /\ result = NoResult
    /\ result2 = NoResult

CallExtractModel ==
    /\ op = "idle"
    /\ \E m \in ModelStrings :
        /\ request' = Request(m, <<>>, Undefined)
        /\ result' = Return(extractModel(m))
    /\ op' = "extractModel"
    /\ UNCHANGED <<request2, content, result2>>

CallExtractText ==
    /\ op = "idle"
    /\ \E c \in Contents :
        /\ content' = c
        /\ result' = extractText(c)
    /\ op' = "extractText"
    /\ UNCHANGED <<request, request2, result2>>

CallMessagesToPrompt ==
    /\ op = "idle"
    /\ \E msgs \in MessageSeqs :
        /\ request' = Request(<<>>, msgs, Undefined)
        /\ result' = messagesToPrompt(msgs)
    /\ op' = "messagesToPrompt"
    /\ UNCHANGED <<request2, content, result2>>

\* Two independent calls, side by side.
CallMessagesToPromptTwice ==
    /\ op = "idle"
    /\ \E m1 \in PairSeqs, m2 \in PairSeqs :
        /\ request' = Request(<<>>, m1, Undefined)
        /\ request2' = Request(<<>>, m2, Undefined)
        /\ result' = messagesToPrompt(m1)
        /\ result2' = messagesToPrompt(m2)
    /\ op' = "messagesToPromptTwice"
    /\ UNCHANGED content

CallOpenaiToCli ==
    /\ op = "idle"
    /\ \E req \in Requests :
        /\ request' = req
        /\ result' = openaiToCli(req)
    /\ op' = "openaiToCli"
    /\ UNCHANGED <<request2, content, result2>>

CallOpenaiToCliTwice ==
    /\ op = "idle"
    /\ \E req \in Requests :
        \E req2 \in Variants(req) :
            /\ request' = req
            /\ request2' = req2
            /\ result' = openaiToCli(req)
            /\ result2' = openaiToCli(req2)
    /\ op' = "openaiToCliTwice"
    /\ UNCHANGED content

\* The result is handed to the caller; nothing is kept.
Done ==
    /\ op # "idle"
    /\ op' = "idle"
    /\ request' = NoRequest
    /\ request2' = NoRequest
    /\ content' = Undefined
    /\ result' = NoResult
    /\ result2' = NoResult

Next ==
    \/ CallExtractModel
    \/ CallExtractText
    \/ CallMessagesToPrompt
    \/ CallMessagesToPromptTwice
    \/ CallOpenaiToCli
    \/ CallOpenaiToCliTwice
    \/ Done

Spec == Init /\ [][Next]_vars

(***************************************************************************)
(* Reference definitions used by the properties.                           *)
(***************************************************************************)
Returned(r) == ~r.threw

IsSystem(msg) == msg.role = Str(system)

IsConversational(msg) == msg.role \in {Str(user), Str(assistant)}

IsOtherRole(msg) == ~IsSystem(msg) /\ ~IsConversational(msg)

TextOfMessage(msg) == extractText(msg.content).value.v

\* r is s without its leading and trailing whitespace.
IsTrimOf(r, s) ==
    \E i \in 1..(Len(s) + 1), j \in 0..Len(s) :
        /\ r = SubSeq(s, i, j)
        /\ \A k \in 1..(i - 1) : IsWhitespace(s[k])
        /\ \A k \in (j + 1)..Len(s) : IsWhitespace(s[k])
        /\ r # <<>> => ~IsWhitespace(r[1]) /\ ~IsWhitespace(r[Len(r)])

RefPart(msg) ==
    IF msg.role = Str(user) THEN TextOfMessage(msg)
    ELSE <<"<", "p", "r", "e", "v", "i", "o", "u", "s", "_", "r", "e", "s", "p", "o", "n", "s", "e", ">", "\n">>
         \o TextOfMessage(msg)
         \o <<"\n", "<", "/", "p", "r", "e", "v", "i", "o", "u", "s", "_", "r", "e", "s", "p", "o", "n", "s", "e", ">", "\n">>

RefJoinedPrompt(messages) ==
    LET conv == SelectSeq(messages, IsConversational)
    IN join([i \in 1..Len(conv) |-> RefPart(conv[i])], <<"\n">>)

RefSystemTexts(messages) ==
    LET sys == SelectSeq(messages, IsSystem)
    IN [i \in 1..Len(sys) |-> TextOfMessage(sys[i])]

ExamplePrompt ==
    <<"h", "i", "\n",
      "<", "p", "r", "e", "v", "i", "o", "u", "s", "_", "r", "e", "s", "p", "o", "n", "s", "e", ">", "\n",
      "h", "e", "l", "l", "o", "\n",
      "<", "/", "p", "r", "e", "v", "i", "o", "u", "s", "_", "r", "e", "s", "p", "o", "n", "s", "e", ">", "\n",
      "\n", "m", "o", "r", "e">>

IsMapKey(m) == \E i \in 1..Len(MODEL_MAP) : MODEL_MAP[i][1] = m

MappedTier(m) == MODEL_MAP[CHOOSE i \in 1..Len(MODEL_MAP) : MODEL_MAP[i][1] = m][2]

RefTwoStage(m) ==
    IF IsMapKey(m) THEN MappedTier(m)
    ELSE IF StartsWith(m, ProviderPrefix) /\ IsMapKey(SubSeq(m, Len(ProviderPrefix) + 1, Len(m)))
    THEN MappedTier(SubSeq(m, Len(ProviderPrefix) + 1, Len(m)))
    ELSE Str(opus)

IsQualifyingBlock(b) ==
    /\ b.t = "object"
    /\ b.v[1] = Str(textType)
    /\ b.v[2].t = "string"
    /\ b.v[2].v # <<>>

RefBlockText(elems) ==
    LET q == SelectSeq(elems, IsQualifyingBlock)
    IN join([i \in 1..Len(q) |-> q[i].v[2].v], <<"\n">>)

IsBlockSequence(c) == c.t = "array" /\ \A i \in 1..Len(c.v) : c.v[i].t = "object"

Remove(seq, i) == SubSeq(seq, 1, i - 1) \o SubSeq(seq, i + 1, Len(seq))

(***************************************************************************)
(* Properties                                                              *)
(***************************************************************************)

\* C1: extractModel returns, for every input string, one of the three tiers
\* opus, sonnet, haiku, and so does the model field of openaiToCli.
C1_ModelIsAlwaysATier ==
    /\ op = "extractModel" => Returned(result) /\ result.value \in ClaudeModel
    /\ op = "openaiToCli" /\ Returned(result) => result.model \in ClaudeModel

\* C2: the systemPrompt of messagesToPrompt and openaiToCli is null or a
\* non-empty string, never the empty string.
C2_SystemPromptNeverEmpty ==
    op \in {"messagesToPrompt", "openaiToCli"} /\ Returned(result)
        => result.systemPrompt # Str(<<>>)

\* C3: the prompt is the user and assistant parts, in input order, each
\* assistant text wrapped in the previous_response tags, joined by a newline
\* and trimmed; the example conversation gives the documented prompt; the
\* prompt neither starts nor ends with whitespace.
C3_PromptIsTrimmedJoin ==
    op = "messagesToPrompt" /\ Returned(result) =>
        /\ result.prompt.t = "string"
        /\ IsTrimOf(result.prompt.v, RefJoinedPrompt(request.messages))
        /\ request.messages = ExampleConversation => result.prompt = Str(ExamplePrompt)

C3_Witness ==
    /\ op = "messagesToPrompt"
    /\ request.messages = ExampleConversation
    /\ Returned(result)
    /\ result.prompt = Str(ExamplePrompt)

\* C4: systemPrompt is null exactly when there is no system message, and
\* otherwise the system texts in input order joined by a double newline.
C4_SystemPromptIsJoin ==
    op = "messagesToPrompt" /\ Returned(result) =>
        LET texts == RefSystemTexts(request.messages)
        IN /\ result.systemPrompt = Null <=> texts = <<>>
           /\ texts # <<>> => result.systemPrompt = Str(join(texts, <<"\n", "\n">>))

C4_Witness ==
    /\ op = "messagesToPrompt"
    /\ request.messages = ExampleSystems
    /\ Returned(result)
    /\ result.systemPrompt = Str(<<"A", "\n", "\n", "B">>)

\* C5: extractModel is the two-stage lookup: the tier of the input if it is
\* a key of the table, else the tier of the input without one leading
\* "claude-code-cli/" if that is a key, else opus.
C5_TwoStageLookup ==
    op = "extractModel" =>
        Returned(result) /\ result.value = RefTwoStage(request.model.v)

\* C6: the text of a plain string is the string itself; the text of a block
\* sequence is the text of its blocks of type "text" with a non-empty text,
\* in order, joined by a newline.
C6_ExtractedText ==
    op = "extractText" =>
        /\ content.t = "string" => result = Return(content)
        /\ IsBlockSequence(content) => result = Return(Str(RefBlockText(content.v)))

C6_Witness ==
    /\ op = "extractText"
    /\ content = Arr(ExampleBlocks)
    /\ result = Return(Str(<<"a", "\n", "b">>))

\* C7: messagesToPrompt and openaiToCli return for every request, whatever
\* the shape of the content; they never raise an error.
C7_NeverThrows ==
    op \in {"messagesToPrompt", "openaiToCli"} => Returned(result)

\* C8: a message whose role is none of system, user, assistant changes
\* neither output and raises no error: the call on a sequence holding such a
\* message gives what the call on the sequence without it gives.
C8_OtherRolesIgnored ==
    op = "messagesToPrompt" =>
        \A i \in 1..Len(request.messages) :
            LET without == messagesToPrompt(Remove(request.messages, i))
            IN IsOtherRole(request.messages[i]) /\ Returned(without) =>
                /\ Returned(result)
                /\ result.prompt = without.prompt
                /\ result.systemPrompt = without.systemPrompt

\* C9: sessionId is the user field, unmodified and absent when user is
\* absent; it does not change when only the messages or the model change,
\* and prompt, systemPrompt and model do not change when only user changes.
C9_SessionIdIsUser ==
    /\ op \in {"openaiToCli", "openaiToCliTwice"} /\ Returned(result)
        => result.sessionId = request.user
    /\ op = "openaiToCliTwice" /\ Returned(result) /\ Returned(result2) =>
        /\ request.user = request2.user => result.sessionId = result2.sessionId
        /\ request.user # request2.user =>
            /\ result.prompt = result2.prompt
            /\ result.systemPrompt = result2.systemPrompt
            /\ result.model = result2.model

C9_Witness ==
    /\ op = "openaiToCliTwice"
    /\ Returned(result) /\ Returned(result2)
    /\ request.user = Undefined /\ result.sessionId = Undefined
    /\ request2.user = Str(<<"u", "1">>) /\ result2.sessionId = Str(<<"u", "1">>)
    /\ request.messages # <<>>

\* C10: two sequences with the same user and assistant messages give the
\* same prompt, and two sequences with the same system messages give the
\* same systemPrompt.
C10_ChannelSeparation ==
    op = "messagesToPromptTwice" /\ Returned(result) /\ Returned(result2) =>
        /\ SelectSeq(request.messages, IsConversational)
             = SelectSeq(request2.messages, IsConversational)
           => result.prompt = result2.prompt
        /\ SelectSeq(request.messages, IsSystem) = SelectSeq(request2.messages, IsSystem)
           => result.systemPrompt = result2.systemPrompt

C10_Witness ==
    /\ op = "messagesToPromptTwice"
    /\ Returned(result) /\ Returned(result2)
    /\ SelectSeq(request.messages, IsConversational) # <<>>
    /\ SelectSeq(request.messages, IsConversational)
         = SelectSeq(request2.messages, IsConversational)
    /\ SelectSeq(request.messages, IsSystem) # <<>>
    /\ SelectSeq(request2.messages, IsSystem) = <<>>
    /\ result.prompt = result2.prompt
    /\ result.systemPrompt # result2.systemPrompt

====
